---- MODULE Spec2Model ----
(***************************************************************************)
(* Model of src/ms_one/push_to_github.py: the GitHub push automation       *)
(* script.  One behaviour is a series of runs of main() in one working     *)
(* directory.  Every external command is a step whose exit code (and       *)
(* captured output) is chosen by the environment; the script's decisions   *)
(* are taken from the code.                                                *)
(*                                                                         *)
(* A text is a sequence of pieces.  A piece typed by the operator is one   *)
(* character; a literal of the program is one piece.                       *)
(***************************************************************************)
EXTENDS Integers, Sequences, FiniteSets, TLC

\* ---------------------------------------------------------------- bounds
MaxRuns == 2       \* runs of main() in one behaviour
MaxLen  == 2       \* longest name / description typed at a prompt
MaxExit == 1       \* external commands exit with a code in 0..MaxExit

ExitCodes == 0..MaxExit

\* ------------------------------------------------------------------ text
Whitespace == {" ", "\n"}

RECURSIVE LStrip(_)
LStrip(s) == IF s # <<>> /\ Head(s) \in Whitespace THEN LStrip(Tail(s)) ELSE s

RECURSIVE RStrip(_)
RStrip(s) ==
    IF s # <<>> /\ s[Len(s)] \in Whitespace
    THEN RStrip(SubSeq(s, 1, Len(s) - 1))
    ELSE s

\* variant: the input is used as typed, .strip() forgotten
NoStrip(s) == s

\* str.strip()
Strip(s) == RStrip(LStrip(s))

\* str.lower(), on the characters the visibility inputs use
LowerChar(c) ==
    CASE c = "P" -> "p" [] c = "U" -> "u" [] c = "B" -> "b"
      [] c = "L" -> "l" [] c = "I" -> "i" [] c = "C" -> "c"
      [] OTHER -> c

Lower(s) == [i \in 1..Len(s) |-> LowerChar(s[i])]

RECURSIVE TextsUpTo(_, _)
TextsUpTo(alphabet, n) ==
    IF n = 0 THEN {<<>>}
    ELSE LET shorter == TextsUpTo(alphabet, n - 1)
         IN  shorter \cup {Append(t, c) : t \in shorter, c \in alphabet}

\* what the operator may type at the name and description prompts
TypedTexts == TextsUpTo({" ", "a"}, MaxLen)

PUBLIC  == <<"p", "u", "b", "l", "i", "c">>
PRIVATE == <<"p", "r", "i", "v", "a", "t", "e">>

\* what the operator may type at the visibility prompt
TypedVisibilities ==
    { <<>>, PUBLIC, PRIVATE,
      <<"P", "U", "B", "L", "I", "C">>,
      <<" ", "P", "u", "b", "l", "i", "c", " ">>,
      <<"p", "u", "b">> }

DEFAULT_DESCRIPTION == <<"Created via automated script">>

\* -------------------------------------------------------- command runner
None == [none |-> TRUE]

\* run_command: the result object, or None when check is set and the
\* command exits non-zero (CalledProcessError is caught).
run_command(rc, out, check, capture_output) ==
    IF check /\ rc # 0
    THEN None
    ELSE [none |-> FALSE, returncode |-> rc,
          stdout |-> IF capture_output THEN out ELSE <<>>]

\* truth value of a run_command result: None is false, a result is true
Truthy(result) == ~result.none

\* `result and result.returncode == 0`
Succeeded(result) == Truthy(result) /\ result.returncode = 0

\* command lines
WHICH_GH       == << <<"which">>, <<"gh">> >>
GIT_INIT       == << <<"git">>, <<"init">> >>
GIT_ADD        == << <<"git">>, <<"add">>, <<".">> >>
GIT_BRANCH     == << <<"git">>, <<"branch">>, <<"-M">>, <<"main">> >>
GIT_STATUS     == << <<"git">>, <<"status">>, <<"--porcelain">> >>
GIT_PUSH       == << <<"git">>, <<"push">> >>
GIT_PUSH_MAIN  == << <<"git">>, <<"push">>, <<"origin">>, <<"main">> >>

git_commit(prefix) ==
    << <<"git">>, <<"commit">>, <<"-m">>, <<prefix, "<timestamp>">> >>

visibility_flag(visibility) ==
    IF visibility = PUBLIC THEN <<"--public">> ELSE <<"--private">>

gh_command(repo_name, description, visibility) ==
    << <<"gh">>, <<"repo">>, <<"create">>, repo_name,
       visibility_flag(visibility), <<"--source=.">>,
       <<"--description">>, description, <<"--push">> >>

\* ----------------------------------------------------------------- state
VARIABLES
    pc,           \* position of the running main()
    flow,         \* "none", "new" or "existing": the flow main() chose
    cmds,         \* external commands executed in this run, in order
    prompts,      \* prompts read from standard input in this run
    consulted,    \* is_git_initialized() was called in this run
    typed_name,   \* the line read at the name prompt
    repo_name, description, visibility,   \* get_user_input's values
    success,      \* the chosen flow's return value
    exit_status,  \* the process exit status, once pc = "exited"
    gitDir,       \* the directory .git exists
    gitignore,    \* the file .gitignore exists
    dirty,        \* git status --porcelain has something to report
    remote,       \* gh repo create has succeeded in some run
    run,          \* number of the current run
    prev,         \* summary of the previous run, and whether files changed after it
    edited,       \* files were changed since this run ended
    orphan        \* an earlier new-repository run got past git init and failed

vars == << pc, flow, cmds, prompts, consulted, typed_name, repo_name, description,
           visibility, success, exit_status, gitDir, gitignore, dirty,
           remote, run, prev, edited, orphan >>

prog == << pc, flow, cmds, prompts, consulted, typed_name, repo_name, description,
           visibility, success, exit_status >>
inputs == << typed_name, repo_name, description, visibility >>
files == << gitDir, gitignore, dirty, remote >>
history == << run, prev, edited, orphan >>

NoRun == [flow |-> "none", exit_status |-> 0, edited |-> FALSE]

Init ==
    /\ pc = "main"
    /\ flow = "none"
    /\ cmds = <<>>
    /\ prompts = 0
    /\ consulted = FALSE
    /\ typed_name = <<>>
    /\ repo_name = <<>>
    /\ description = <<>>
    /\ visibility = <<>>
    /\ success = FALSE
    /\ exit_status = 0
    /\ gitDir \in BOOLEAN
    /\ gitignore \in BOOLEAN
    /\ dirty \in (IF gitDir THEN BOOLEAN ELSE {FALSE})
    /\ remote = FALSE
    /\ run = 1
    /\ prev = NoRun
    /\ edited = FALSE
    /\ orphan = FALSE

\* one executed command: the policy it ran under, its exit code and what it
\* wrote to standard output
Executed(argv, check, rc, out) ==
    [argv |-> argv, check |-> check, rc |-> rc, stdout |-> out]

\* sys.exit(status)
sys_exit(status) ==
    /\ pc' = "exited"
    /\ exit_status' = status

\* the flow returns `value` to main()
return(value) ==
    /\ pc' = "finish"
    /\ success' = value

\* ------------------------------------------------------------------ main
\* variant: the detector looks for a directory that git never creates
is_git_initialized_wrong_dir == FALSE

\* os.path.isdir('.git')
is_git_initialized == gitDir

\* variant: a missing hosting CLI is only warned about
main_which_gh_warn_only(found) ==
    /\ pc = "main"
    /\ LET rc == IF found THEN 0 ELSE 1
           out == IF found THEN <<"/usr/bin/gh", "\n">> ELSE <<>>
       IN  cmds' = Append(cmds, Executed(WHICH_GH, FALSE, rc, out))
    /\ pc' = "dispatch"
    /\ UNCHANGED << flow, prompts, consulted, inputs, success, exit_status,
                    files, history >>

\* main, lines 159-165: the presence check of the hosting CLI.  `which`
\* prints the path when it finds the tool and nothing when it does not.
main_which_gh(found) ==
    /\ pc = "main"
    /\ LET rc == IF found THEN 0 ELSE 1
           out == IF found THEN <<"/usr/bin/gh", "\n">> ELSE <<>>
           gh_check == run_command(rc, out, FALSE, TRUE)
       IN  /\ cmds' = Append(cmds, Executed(WHICH_GH, FALSE, rc, out))
           /\ IF ~Truthy(gh_check) \/ Strip(gh_check.stdout) = <<>>
              THEN sys_exit(1)
              ELSE pc' = "dispatch" /\ UNCHANGED exit_status
    /\ UNCHANGED << flow, prompts, consulted, inputs, success, files, history >>

\* main, lines 167-173: choose the flow
main_dispatch ==
    /\ pc = "dispatch"
    /\ consulted' = TRUE
    /\ IF is_git_initialized
       THEN flow' = "existing" /\ pc' = "ex_status"
       ELSE flow' = "new" /\ pc' = "input_name"
    /\ UNCHANGED << cmds, prompts, inputs, success, exit_status, files, history >>

\* main, lines 175-179: the exit status
main_finish ==
    /\ pc = "finish"
    /\ IF success
       THEN pc' = "exited" /\ UNCHANGED exit_status
       ELSE sys_exit(1)
    /\ UNCHANGED << flow, cmds, prompts, consulted, inputs, success, files, history >>

\* -------------------------------------------------------- get_user_input
input_name(typed) ==
    /\ pc = "input_name"
    /\ prompts' = prompts + 1
    /\ typed_name' = typed
    /\ repo_name' = Strip(typed)
    /\ IF repo_name' = <<>>
       THEN sys_exit(1)
       ELSE pc' = "input_description" /\ UNCHANGED exit_status
    /\ UNCHANGED << flow, cmds, consulted, description, visibility, success,
                    files, history >>

input_description(typed) ==
    /\ pc = "input_description"
    /\ prompts' = prompts + 1
    /\ description' = (IF Strip(typed) = <<>> THEN DEFAULT_DESCRIPTION
                       ELSE Strip(typed))
    /\ pc' = "input_visibility"
    /\ UNCHANGED << flow, cmds, consulted, typed_name, repo_name, visibility, success,
                    exit_status, files, history >>

input_visibility(typed) ==
    /\ pc = "input_visibility"
    /\ prompts' = prompts + 1
    /\ visibility' = (IF Lower(Strip(typed)) \in {PUBLIC, PRIVATE}
                      THEN Lower(Strip(typed)) ELSE PRIVATE)
    /\ pc' = "new_init"
    /\ UNCHANGED << flow, cmds, consulted, typed_name, repo_name, description, success,
                    exit_status, files, history >>

\* ------------------------------------------ initialize_and_push_new_repo
\* line 61.  A git init that exits zero has created .git; the new
\* repository reports every file that is not ignored as untracked.
new_git_init(rc) ==
    /\ pc = "new_init"
    /\ cmds' = Append(cmds, Executed(GIT_INIT, TRUE, rc, <<>>))
    /\ IF rc = 0
       THEN gitDir' = TRUE /\ dirty' \in BOOLEAN
       ELSE UNCHANGED << gitDir, dirty >>
    /\ IF ~Truthy(run_command(rc, <<>>, TRUE, FALSE))
       THEN return(FALSE)
       ELSE pc' = "new_gitignore" /\ UNCHANGED success
    /\ UNCHANGED << flow, prompts, consulted, inputs, exit_status, gitignore,
                    remote, history >>

\* lines 65-71.  A .gitignore just written is an untracked file.
new_gitignore ==
    /\ pc = "new_gitignore"
    /\ IF ~gitignore
       THEN gitignore' = TRUE /\ dirty' = TRUE
       ELSE UNCHANGED << gitignore, dirty >>
    /\ pc' = "new_add"
    /\ UNCHANGED << flow, cmds, prompts, consulted, inputs, success,
                    exit_status, gitDir, remote, history >>

\* variant: the flow goes on after a failed git add
new_git_add_unguarded(rc) ==
    /\ pc = "new_add"
    /\ cmds' = Append(cmds, Executed(GIT_ADD, TRUE, rc, <<>>))
    /\ pc' = "new_commit"
    /\ UNCHANGED << flow, prompts, consulted, inputs, success, exit_status,
                    files, history >>

\* line 75
new_git_add(rc) ==
    /\ pc = "new_add"
    /\ cmds' = Append(cmds, Executed(GIT_ADD, TRUE, rc, <<>>))
    /\ IF ~Truthy(run_command(rc, <<>>, TRUE, FALSE))
       THEN return(FALSE)
       ELSE pc' = "new_commit" /\ UNCHANGED success
    /\ UNCHANGED << flow, prompts, consulted, inputs, exit_status, files, history >>

\* lines 79-82.  A commit that exits zero has recorded what was staged by
\* `git add .`, after which git status has nothing to report.
new_git_commit(rc) ==
    /\ pc = "new_commit"
    /\ cmds' = Append(cmds, Executed(git_commit("Initial commit - "), TRUE, rc, <<>>))
    /\ dirty' = (IF rc = 0 THEN FALSE ELSE dirty)
    /\ IF ~Truthy(run_command(rc, <<>>, TRUE, FALSE))
       THEN return(FALSE)
       ELSE pc' = "new_branch" /\ UNCHANGED success
    /\ UNCHANGED << flow, prompts, consulted, inputs, exit_status, gitDir,
                    gitignore, remote, history >>

\* variant: a failed branch rename aborts the flow
new_git_branch_guarded(rc) ==
    /\ pc = "new_branch"
    /\ cmds' = Append(cmds, Executed(GIT_BRANCH, TRUE, rc, <<>>))
    /\ IF ~Truthy(run_command(rc, <<>>, TRUE, FALSE))
       THEN return(FALSE)
       ELSE pc' = "new_create" /\ UNCHANGED success
    /\ UNCHANGED << flow, prompts, consulted, inputs, exit_status, files, history >>

\* line 86: the result of the branch rename is not looked at
new_git_branch(rc) ==
    /\ pc = "new_branch"
    /\ cmds' = Append(cmds, Executed(GIT_BRANCH, TRUE, rc, <<>>))
    /\ pc' = "new_create"
    /\ UNCHANGED << flow, prompts, consulted, inputs, success, exit_status,
                    files, history >>

\* lines 89-101
new_gh_create(rc) ==
    /\ pc = "new_create"
    /\ cmds' = Append(cmds, Executed(gh_command(repo_name, description, visibility),
                                     TRUE, rc, <<>>))
    /\ remote' = (remote \/ rc = 0)
    /\ return(Succeeded(run_command(rc, <<>>, TRUE, TRUE)))
    /\ UNCHANGED << flow, prompts, consulted, inputs, exit_status, gitDir,
                    gitignore, dirty, history >>

\* ---------------------------------------------------- push_existing_repo
\* lines 109-110: the working-tree query
ex_git_status(rc) ==
    /\ pc = "ex_status"
    /\ LET out == IF dirty THEN <<"?? file", "\n">> ELSE <<>>
           status == run_command(rc, out, TRUE, TRUE)
       IN  /\ cmds' = Append(cmds, Executed(GIT_STATUS, TRUE, rc, out))
           /\ IF ~Truthy(status) \/ Strip(status.stdout) = <<>>
              THEN pc' = "ex_clean_push"
              ELSE pc' = "ex_add"
    /\ UNCHANGED << flow, prompts, consulted, inputs, success, exit_status,
                    files, history >>

\* variant: the flow's result is the result of the push on a clean tree
ex_clean_push_checked(rc) ==
    /\ pc = "ex_clean_push"
    /\ cmds' = Append(cmds, Executed(GIT_PUSH, FALSE, rc, <<>>))
    /\ return(Succeeded(run_command(rc, <<>>, FALSE, TRUE)))
    /\ UNCHANGED << flow, prompts, consulted, inputs, exit_status, files, history >>

\* lines 111-120: nothing to commit, push what may be unpushed
ex_clean_push(rc) ==
    /\ pc = "ex_clean_push"
    /\ cmds' = Append(cmds, Executed(GIT_PUSH, FALSE, rc, <<>>))
    /\ return(TRUE)
    /\ UNCHANGED << flow, prompts, consulted, inputs, exit_status, files, history >>

\* line 124
ex_git_add(rc) ==
    /\ pc = "ex_add"
    /\ cmds' = Append(cmds, Executed(GIT_ADD, TRUE, rc, <<>>))
    /\ IF ~Truthy(run_command(rc, <<>>, TRUE, FALSE))
       THEN return(FALSE)
       ELSE pc' = "ex_commit" /\ UNCHANGED success
    /\ UNCHANGED << flow, prompts, consulted, inputs, exit_status, files, history >>

\* variant: the flow goes on to push after a failed commit
ex_git_commit_unguarded(rc) ==
    /\ pc = "ex_commit"
    /\ cmds' = Append(cmds, Executed(git_commit("Update - "), TRUE, rc, <<>>))
    /\ dirty' = (IF rc = 0 THEN FALSE ELSE dirty)
    /\ pc' = "ex_push_main"
    /\ UNCHANGED << flow, prompts, consulted, inputs, success, exit_status,
                    gitDir, gitignore, remote, history >>

\* lines 128-131.  A commit that exits zero has recorded what was staged by
\* `git add .`, after which git status has nothing to report.
ex_git_commit(rc) ==
    /\ pc = "ex_commit"
    /\ cmds' = Append(cmds, Executed(git_commit("Update - "), TRUE, rc, <<>>))
    /\ dirty' = (IF rc = 0 THEN FALSE ELSE dirty)
    /\ IF ~Truthy(run_command(rc, <<>>, TRUE, FALSE))
       THEN return(FALSE)
       ELSE pc' = "ex_push_main" /\ UNCHANGED success
    /\ UNCHANGED << flow, prompts, consulted, inputs, exit_status, gitDir,
                    gitignore, remote, history >>

\* variant: no second push after a failed push to origin main
ex_push_main_only(rc) ==
    /\ pc = "ex_push_main"
    /\ cmds' = Append(cmds, Executed(GIT_PUSH_MAIN, FALSE, rc, <<>>))
    /\ return(Succeeded(run_command(rc, <<>>, FALSE, TRUE)))
    /\ UNCHANGED << flow, prompts, consulted, inputs, exit_status, files, history >>

\* lines 135-139: the push to origin main
ex_push_main(rc) ==
    /\ pc = "ex_push_main"
    /\ cmds' = Append(cmds, Executed(GIT_PUSH_MAIN, FALSE, rc, <<>>))
    /\ IF Succeeded(run_command(rc, <<>>, FALSE, TRUE))
       THEN return(TRUE)
       ELSE pc' = "ex_push_fallback" /\ UNCHANGED success
    /\ UNCHANGED << flow, prompts, consulted, inputs, exit_status, files, history >>

\* lines 141-150: the push without remote and branch
ex_push_fallback(rc) ==
    /\ pc = "ex_push_fallback"
    /\ cmds' = Append(cmds, Executed(GIT_PUSH, FALSE, rc, <<>>))
    /\ return(Succeeded(run_command(rc, <<>>, FALSE, TRUE)))
    /\ UNCHANGED << flow, prompts, consulted, inputs, exit_status, files, history >>

\* ----------------------------------------------------------- environment
IsCommand(e, argv) == e.argv = argv

\* the run that just ended was a new-repository run whose git init exited
\* zero and which then failed
Orphaned ==
    /\ flow = "new"
    /\ exit_status = 1
    /\ \E i \in 1..Len(cmds) : IsCommand(cmds[i], GIT_INIT) /\ cmds[i].rc = 0

\* the operator starts the script again in the same directory
NextRun ==
    /\ pc = "exited"
    /\ run < MaxRuns
    /\ run' = run + 1
    /\ prev' = [flow |-> flow, exit_status |-> exit_status, edited |-> edited]
    /\ orphan' = (orphan \/ Orphaned)
    /\ edited' = FALSE
    /\ pc' = "main"
    /\ flow' = "none"
    /\ cmds' = <<>>
    /\ prompts' = 0
    /\ consulted' = FALSE
    /\ typed_name' = <<>>
    /\ repo_name' = <<>>
    /\ description' = <<>>
    /\ visibility' = <<>>
    /\ success' = FALSE
    /\ exit_status' = 0
    /\ UNCHANGED files

\* between two runs the operator changes files of the working directory
EditFiles ==
    /\ pc = "exited"
    /\ run < MaxRuns
    /\ ~edited
    /\ edited' = TRUE
    /\ dirty' = (IF gitDir THEN TRUE ELSE dirty)
    /\ UNCHANGED << prog, gitDir, gitignore, remote, run, prev, orphan >>

Next ==
    \/ \E found \in BOOLEAN : main_which_gh(found)
    \/ main_dispatch
    \/ main_finish
    \/ \E typed \in TypedTexts : input_name(typed)
    \/ \E typed \in TypedTexts : input_description(typed)
    \/ \E typed \in TypedVisibilities : input_visibility(typed)
    \/ \E rc \in ExitCodes : new_git_init(rc)
    \/ new_gitignore
    \/ \E rc \in ExitCodes : new_git_add(rc)
    \/ \E rc \in ExitCodes : new_git_commit(rc)
    \/ \E rc \in ExitCodes : new_git_branch(rc)
    \/ \E rc \in ExitCodes : new_gh_create(rc)
    \/ \E rc \in ExitCodes : ex_git_status(rc)
    \/ \E rc \in ExitCodes : ex_clean_push(rc)
    \/ \E rc \in ExitCodes : ex_git_add(rc)
    \/ \E rc \in ExitCodes : ex_git_commit(rc)
    \/ \E rc \in ExitCodes : ex_push_main(rc)
    \/ \E rc \in ExitCodes : ex_push_fallback(rc)
    \/ NextRun
    \/ EditFiles

Spec == Init /\ [][Next]_vars

\* ------------------------------------------------------------------ types
TypeOK ==
    /\ pc \in {"main", "dispatch", "finish", "exited", "input_name",
               "input_description", "input_visibility", "new_init",
               "new_gitignore", "new_add", "new_commit", "new_branch",
               "new_create", "ex_status", "ex_clean_push", "ex_add",
               "ex_commit", "ex_push_main", "ex_push_fallback"}
    /\ flow \in {"none", "new", "existing"}
    /\ exit_status \in {0, 1}
    /\ prompts \in 0..3
    /\ visibility \in {<<>>, PUBLIC, PRIVATE}
    /\ run \in 1..MaxRuns

\* ================================================================ claims
Issued == 1..Len(cmds)

Ran(argv) == \E i \in Issued : cmds[i].argv = argv

Count(argv) == Cardinality({i \in Issued : cmds[i].argv = argv})

RanWith(argv, codes) == \E i \in Issued : cmds[i].argv = argv /\ cmds[i].rc \in codes

NonZero == ExitCodes \ {0}

IsCommit(e) ==
    /\ Len(e.argv) >= 2
    /\ e.argv[1] = <<"git">>
    /\ e.argv[2] = <<"commit">>

IsCreate(e) ==
    /\ Len(e.argv) >= 3
    /\ e.argv[1] = <<"gh">>
    /\ e.argv[2] = <<"repo">>
    /\ e.argv[3] = <<"create">>

IsPush(e) == e.argv \in {GIT_PUSH, GIT_PUSH_MAIN}

HasFlag(e, flag) == \E k \in 1..Len(e.argv) : e.argv[k] = flag

Committed == \E i \in Issued : IsCommit(cmds[i]) /\ cmds[i].rc = 0
CommitFailed == \E i \in Issued : IsCommit(cmds[i]) /\ cmds[i].rc # 0
CommitInvoked == \E i \in Issued : IsCommit(cmds[i])
CreateInvoked == \E i \in Issued : IsCreate(cmds[i])
PushInvoked == \E i \in Issued : IsPush(cmds[i])

\* the status query exited zero and printed nothing / something
SawCleanTree ==
    /\ flow = "existing"
    /\ \E i \in Issued :
          cmds[i].argv = GIT_STATUS /\ cmds[i].rc = 0 /\ cmds[i].stdout = <<>>

SawDirtyTree ==
    /\ flow = "existing"
    /\ \E i \in Issued :
          cmds[i].argv = GIT_STATUS /\ cmds[i].rc = 0 /\ cmds[i].stdout # <<>>

\* the steps the exit-status contract names as guarded
GuardedStep(e) ==
    \/ e.argv \in {GIT_INIT, GIT_ADD, GIT_STATUS}
    \/ IsCommit(e)
    \/ IsCreate(e)

GuardedFailure == \E i \in Issued : GuardedStep(cmds[i]) /\ cmds[i].rc # 0

\* C1: when main() has ended, a guarded step that exited non-zero (git init,
\* git add, git commit, gh repo create, or the git status query) means exit
\* status 1, and exit status 0 means that no guarded step failed.
C1_GuardedFailureExits1 ==
    pc = "exited" =>
        /\ (GuardedFailure => exit_status = 1)
        /\ (exit_status = 0 => ~GuardedFailure)

\* the line read at the name prompt is empty or whitespace only
NameBlank ==
    /\ prompts >= 1
    /\ \A i \in 1..Len(typed_name) : typed_name[i] \in Whitespace

\* C2 (as stated): a run whose name input is empty or whitespace-only has
\* terminated with a non-zero exit status and has executed no external
\* command at all.
C2_BlankNameNoCommandAtAll ==
    NameBlank => /\ pc = "exited"
                 /\ exit_status # 0
                 /\ cmds = <<>>

\* C2 (amended): a run whose name input is empty or whitespace-only has
\* terminated with a non-zero exit status, and the only external command it
\* has executed is the presence check of the hosting CLI.
C2_BlankNameOnlyPresenceCheck ==
    NameBlank => /\ pc = "exited"
                 /\ exit_status # 0
                 /\ Len(cmds) = 1
                 /\ cmds[1].argv = WHICH_GH

C2_Witness ==
    /\ NameBlank
    /\ typed_name # <<>>
    /\ pc = "exited"

\* the presence check printed nothing: the tool was not found
GhNotFound ==
    /\ cmds # <<>>
    /\ cmds[1].argv = WHICH_GH
    /\ cmds[1].stdout = <<>>

\* C3: when the presence check does not find the hosting CLI the process
\* has exited with status 1 at once: the detector was not consulted, no
\* prompt was read and no other command was run.
C3_MissingCliExitsAtOnce ==
    GhNotFound => /\ pc = "exited"
                  /\ exit_status = 1
                  /\ ~consulted
                  /\ flow = "none"
                  /\ prompts = 0
                  /\ Len(cmds) = 1

C3_Witness == GhNotFound /\ pc = "exited" /\ run = 1

\* a finished new-repository run in which no guarded command failed
NewRunAllGuardedOk ==
    /\ pc = "exited"
    /\ flow = "new"
    /\ repo_name # <<>>
    /\ \A i \in Issued :
          (cmds[i].argv \in {GIT_INIT, GIT_ADD} \/ IsCommit(cmds[i]) \/ IsCreate(cmds[i]))
              => cmds[i].rc = 0

\* C4: a new-repository run with a non-empty name in which git init, git
\* add, git commit and gh repo create all exit zero ends with exit status 0
\* and has invoked gh repo create exactly once, with --push, whatever the
\* branch rename's exit code.
C4_NewRepoSuccess ==
    NewRunAllGuardedOk =>
        /\ exit_status = 0
        /\ Cardinality({i \in Issued : IsCreate(cmds[i])}) = 1
        /\ \A i \in Issued : IsCreate(cmds[i]) => HasFlag(cmds[i], <<"--push">>)

C4_Witness ==
    /\ NewRunAllGuardedOk
    /\ RanWith(GIT_BRANCH, NonZero)
    /\ CreateInvoked

\* C5: once the status query has reported a clean tree, no git add and no
\* git commit is invoked, the only push is one plain git push, and the run
\* ends with exit status 0 whatever that push's exit code.
C5_CleanTree ==
    SawCleanTree =>
        /\ ~Ran(GIT_ADD)
        /\ ~CommitInvoked
        /\ ~Ran(GIT_PUSH_MAIN)
        /\ Count(GIT_PUSH) <= 1
        /\ pc = "exited" => (Count(GIT_PUSH) = 1 /\ exit_status = 0)

C5_Witness ==
    /\ SawCleanTree
    /\ pc = "exited"
    /\ RanWith(GIT_PUSH, NonZero)

\* C6: on a dirty tree, once staging or commit has failed the flow has
\* returned, the exit status is non-zero, no push of either kind is
\* invoked, and after a failed staging the commit is not invoked.
C6_DirtyTreeStepFailure ==
    (SawDirtyTree /\ (RanWith(GIT_ADD, NonZero) \/ CommitFailed)) =>
        /\ pc \in {"finish", "exited"}
        /\ ~success
        /\ pc = "exited" => exit_status # 0
        /\ ~PushInvoked
        /\ RanWith(GIT_ADD, NonZero) => ~CommitInvoked

C6_Witness ==
    /\ SawDirtyTree
    /\ CommitFailed
    /\ pc = "exited"

StagedAndCommitted ==
    /\ SawDirtyTree
    /\ RanWith(GIT_ADD, {0})
    /\ Committed

\* C7: on a dirty tree with staging and commit done, git push origin main
\* is attempted first, plain git push is attempted exactly when that one
\* exited non-zero, and the exit status is 0 iff some push exited zero.
C7_PushWithFallback ==
    StagedAndCommitted =>
        /\ Count(GIT_PUSH_MAIN) <= 1
        /\ Count(GIT_PUSH) <= 1
        /\ \A j \in Issued : cmds[j].argv = GIT_PUSH =>
              \E i \in 1..(j - 1) :
                  cmds[i].argv = GIT_PUSH_MAIN /\ cmds[i].rc # 0
        /\ pc = "exited" =>
              /\ Ran(GIT_PUSH_MAIN)
              /\ RanWith(GIT_PUSH_MAIN, NonZero) => Ran(GIT_PUSH)
              /\ exit_status \in {0, 1}
              /\ exit_status = 0 <=> \E i \in Issued : IsPush(cmds[i]) /\ cmds[i].rc = 0

C7_Witness ==
    /\ StagedAndCommitted
    /\ pc = "exited"
    /\ RanWith(GIT_PUSH_MAIN, NonZero)
    /\ RanWith(GIT_PUSH, {0})
    /\ exit_status = 0

\* C8: when the previous run was a run of the existing-repository flow and
\* no file changed since, this run of the existing-repository flow sees a
\* clean tree, takes the path of the push on a clean tree, invokes no git
\* commit and exits 0.
C8_SecondRunIsClean ==
    (prev.flow = "existing" /\ ~prev.edited /\ flow = "existing") =>
        /\ \A i \in Issued : cmds[i].argv = GIT_STATUS => cmds[i].stdout = <<>>
        /\ ~Ran(GIT_ADD)
        /\ ~CommitInvoked
        /\ pc = "exited" => (Ran(GIT_PUSH) /\ exit_status = 0)

\* the commands of the new-repository flow, in the order of the code
NewFlowOrder ==
    << GIT_INIT, GIT_ADD, git_commit("Initial commit - "), GIT_BRANCH,
       gh_command(repo_name, description, visibility) >>

GuardedPositions == {1, 2, 3, 5}

\* C9: after the presence check, the new-repository flow issues git init,
\* git add, git commit, git branch -M main, gh repo create in this order and
\* stops at the first guarded one that fails; the branch rename's exit code
\* neither stops gh repo create nor changes the outcome.
C9_NewFlowOrder ==
    flow = "new" =>
        LET issued == Tail(cmds)
            n == Len(issued)
        IN  /\ n <= 5
            /\ \A i \in 1..n : issued[i].argv = NewFlowOrder[i]
            /\ \A i \in 1..n : \A k \in 1..(i - 1) :
                  k \in GuardedPositions => issued[k].rc = 0
            /\ \A k \in 1..n :
                  (k \in GuardedPositions /\ issued[k].rc # 0)
                      => (pc \in {"finish", "exited"} /\ ~success)
            /\ (pc = "exited" /\ n >= 3 /\ issued[3].rc = 0) => n = 5
            /\ (pc = "exited" /\ n = 5) => (exit_status = 0 <=> issued[5].rc = 0)

C9_Witness ==
    /\ flow = "new"
    /\ pc = "exited"
    /\ Len(cmds) = 6
    /\ cmds[5].argv = GIT_BRANCH
    /\ cmds[5].rc # 0
    /\ exit_status = 0

\* C10: after a new-repository run got past git init and then failed, .git
\* is still there and every later run that dispatches takes the
\* existing-repository flow: no prompt is read and gh repo create is not
\* invoked again.
C10_NoRollback ==
    orphan =>
        /\ gitDir
        /\ flow # "new"
        /\ consulted => flow = "existing"
        /\ prompts = 0
        /\ ~CreateInvoked

\* such a later run ends with exit status 0 on a clean tree with a failed
\* push, no remote repository having been created
C10_Witness ==
    /\ orphan
    /\ ~remote
    /\ SawCleanTree
    /\ RanWith(GIT_PUSH, NonZero)
    /\ pc = "exited"
    /\ exit_status = 0

====
